---- MODULE Spec2Model ----
(***************************************************************************)
(* Live-merge engine of kucoin_candle_trader.                              *)
(*                                                                         *)
(* Two variants of the engine are modelled over the same state:            *)
(*   Spec    the packaged LiveDataUpdater (kucoin_candle_spot/             *)
(*           live_data_update.py): a consumer loop that calls              *)
(*           get_data(timeout=1.0) and process_data;                       *)
(*   SpecCU  the development CandleUpdate (development/                    *)
(*           live_data_update_org.py): the two query operations            *)
(*           new_candle_update and inter_candle_df, each of which          *)
(*           dequeues one event itself.                                    *)
(* Both are fed by KucoinCandlestickWebSocket._on_message through the      *)
(* bounded data_queue (ws_websocket_lib.py).                               *)
(*                                                                         *)
(* A candle is the pair <<openTime, payload>>: candle[1] is the source's   *)
(* candle[0] (TLA+ sequences are 1-based) and the payload stands for the   *)
(* remaining fields open/close/high/low/volume/turnover of one event.      *)
(* An optional value (Python None or a value) is a sequence of length 0    *)
(* or 1.                                                                   *)
(***************************************************************************)
EXTENDS Integers, Sequences, FiniteSets, TLC

\* ---------------------------------------------------------------- bounds
T0 == 100
MaxSpan == 3
MaxCap == 3
MaxBackfill == 3
MaxQueue == 2
MaxEvents == 3
MaxErrors == 2
MaxOffset == 1
PageSize == 2
MaxChunks == 8
MaxThreads == 2
\* the capacity of candle_list both variants are run with; it stands for the
\* 500 of the standalone loop and of the default of max_candles
Capacity == 2

Times == T0 .. (T0 + MaxSpan)
\* two payloads tell an update of a bar from the bar it replaces
Vals == {1, 2}
Candles == {<<t, v>> : t \in Times, v \in Vals}

None == <<>>
Some(x) == <<x>>

VARIABLES
    max_candles,        \* LiveDataUpdater.max_candles
    bars_lookback,      \* CandleUpdate.bars_lookback
    candle_list,        \* the Series
    data_queue,         \* KucoinCandlestickWebSocket.data_queue
    metrics,            \* ConnectionMetrics: message_count, error_count
    timestamp,          \* CandleUpdate.timestamp (last seen candle[0])
    close,              \* last seen payload (self.open/close/high/low/...)
    df_to_trade,        \* CandleUpdate.df_to_trade
    inter_candle_df_att,\* CandleUpdate.inter_candle_df_att
    op,                 \* the operation that made the last step
    branch,             \* the branch the last merge step took
    ret,                \* the value returned by the last query operation
    polled,             \* number of non-None results of new_candle_update
    extended,           \* number of appends made by new_candle_update
    running,            \* KucoinCandlestickWebSocket.running
    ws,                 \* KucoinCandlestickWebSocket.ws: "none", "open", "closed"
    ws_threads,         \* connection threads (ws_thread) that are still alive
    loop,               \* the loop of LiveDataUpdater.start: "idle", "running",
                        \* "crashed" (left by an exception), "stopped"
    frame,              \* the frame the transport delivered last
    end_time,           \* the fetcher's end_time, the interval of "now"
    utc_offset,         \* the host's UTC offset, in intervals
    chunks,             \* local chunks of fetch_all_candles
    current_end,        \* local current_end of fetch_all_candles
    fetch_pc,           \* the constructor: "new", "loop" (in the loop of
                        \* fetch_all_candles), "done", "failed" (left by
                        \* an exception)
    timeframe,          \* the timeframe argument of the constructor
    accepted,           \* history: the events put_nowait has enqueued
    delivered,          \* history: the events get_data has returned
    pc,                 \* the statement the consumer is at
    standalone          \* the standalone CandleUpdate beside the packaged
                        \* engine: its candle_list and the state of its loop

vars == <<max_candles, bars_lookback, candle_list, data_queue, metrics,
          timestamp, close, df_to_trade, inter_candle_df_att,
          op, branch, ret, polled, extended,
          running, ws, ws_threads, loop, frame,
          end_time, utc_offset, chunks, current_end, fetch_pc, timeframe,
          accepted, delivered, pc, standalone>>

\* the state of the transport client apart from its queue and counters
clientVars == <<running, ws, ws_threads>>

\* the state of the historical fetch
fetchVars == <<end_time, utc_offset, chunks, current_end, fetch_pc, timeframe>>

\* the consumer's position and the histories of the queue
stepVars == <<accepted, delivered, pc>>

\* ------------------------------------------------------- pure functions
Last(s) == s[Len(s)]

Max(a, b) == IF a >= b THEN a ELSE b
Min(a, b) == IF a <= b THEN a ELSE b

\* Python s[i:]
SliceFrom(s, i) ==
    LET start == IF i < 0 THEN Max(Len(s) + i, 0) ELSE Min(i, Len(s))
    IN  SubSeq(s, start + 1, Len(s))

StrictlyIncreasing(s) ==
    \A i \in 1 .. (Len(s) - 1) : s[i][1] < s[i + 1][1]

\* the candle lists the historical fetch can hand to the constructor: the
\* bars of n consecutive intervals from the start of the requested range,
\* oldest first. Neither fetcher looks at the lookback, so n is not tied to it
Backfills ==
    {[i \in 1 .. n |-> <<T0 + i - 1, 1>>] : n \in 0 .. MaxBackfill}

ValidBackfills == {b \in Backfills : \A i \in 1 .. Len(b) : b[i][1] \in Times}

\* frames the transport hands to _on_message
Messages ==
    {[kind |-> "garbage"]} \cup
    {[kind |-> "json", type |-> ty, has_data |-> FALSE] :
        ty \in {"welcome", "ack", "pong"}} \cup
    {[kind |-> "json", type |-> "message", has_data |-> TRUE,
      data |-> [candles |-> c]] : c \in Candles}

\* every frame the transport can hand to _on_message, the ill-formed ones
\* included: JSON that is no object, a data message whose data is no object,
\* and data objects that are no candle record (no 'candles' field, or a
\* candle of five fields instead of seven)
MalformedRecords ==
    {[symbol |-> "BTC-USDT"], [candles |-> <<T0 + 1, 1>>, short |-> TRUE]}

EngineRecords == {[candles |-> <<T0 + 1, v>>] : v \in Vals} \cup MalformedRecords

EngineMessages ==
    {[kind |-> "garbage"], [kind |-> "json_nondict"]} \cup
    {[kind |-> "json", type |-> "welcome", has_data |-> FALSE]} \cup
    {[kind |-> "json", type |-> "message", has_data |-> TRUE, bad_data |-> TRUE]} \cup
    {[kind |-> "json", type |-> "message", has_data |-> TRUE, data |-> d] :
        d \in EngineRecords}

\* a producer that enqueues the record as it came off the wire
time_received_missing(candlestick_data) == candlestick_data

\* candlestick_data['time_received'] = datetime.now().isoformat(): the record
\* with the arrival stamp added; the clock reading is one opaque value
time_received(candlestick_data) ==
    [k \in DOMAIN candlestick_data \cup {"time_received"} |->
        IF k = "time_received" THEN "isoformat" ELSE candlestick_data[k]]

\* a put_nowait that makes room by dropping the oldest queued event
put_nowait_drops_oldest(queue, item) ==
    IF Len(queue) < MaxQueue THEN Append(queue, item)
    ELSE Append(Tail(queue), item)

\* queue.Queue(maxsize).put_nowait inside the try of _on_message: the queue
\* after the call; on queue.Full the item is dropped
put_nowait(queue, item) ==
    IF Len(queue) < MaxQueue THEN Append(queue, item) ELSE queue

\* a get_data that hands out the newest queued event
get_data_newest(queue) ==
    IF queue = <<>> THEN [data |-> None, queue |-> queue]
    ELSE [data |-> Some(Last(queue)), queue |-> SubSeq(queue, 1, Len(queue) - 1)]

\* a get_data that answers a timeout with a placeholder record
get_data_placeholder(queue) ==
    IF queue = <<>> THEN [data |-> Some([time_received |-> 0]), queue |-> queue]
    ELSE [data |-> Some(Head(queue)), queue |-> Tail(queue)]

\* KucoinCandlestickWebSocket.get_data(timeout) once the timeout is over:
\* the value returned and the queue left behind; None on queue.Empty
get_data(queue) ==
    IF queue = <<>> THEN [data |-> None, queue |-> queue]
    ELSE [data |-> Some(Head(queue)), queue |-> Tail(queue)]

\* LiveDataUpdater.add_new_candle: the list after the append and the trim
add_new_candle(list, candle, cap) ==
    LET appended == Append(list, candle)
    IN  IF Len(appended) > cap THEN SliceFrom(appended, -cap) ELSE appended

\* update_last_candle that keeps the previous snapshot of the bar
update_last_candle_keeps_old(list, candle) ==
    list

\* an update that writes the candle over the oldest bar
update_first_candle(list, candle) ==
    [list EXCEPT ![1] = candle]

\* LiveDataUpdater.update_last_candle: the list after candle_list[-1] = candle
update_last_candle(list, candle) ==
    [list EXCEPT ![Len(list)] = candle]

\* the test of process_data that chooses between the two branches
is_new_candle(list, candle) ==
    list = <<>> \/ candle[1] # Last(list)[1]

\* the rows of a DataFrame built from a list of candles: the timestamp
\* column becomes the index, volume and turnover are dropped
Row(candle) == [index |-> candle[1], ohlc |-> candle[2]]
DataFrame(list) == [i \in 1 .. Len(list) |-> Row(list[i])]

\* SpotDataFetcher.build_dataframe: as DataFrame, then sort_index. The
\* sort is stable; Insert puts a row after the rows whose index is not larger
RECURSIVE SortRows(_)
InsertRow(sorted, row) ==
    LET k == Cardinality({i \in 1 .. Len(sorted) : sorted[i].index <= row.index})
    IN  SubSeq(sorted, 1, k) \o <<row>> \o SubSeq(sorted, k + 1, Len(sorted))
SortRows(rows) ==
    IF rows = <<>> THEN <<>>
    ELSE InsertRow(SortRows(SubSeq(rows, 1, Len(rows) - 1)), Last(rows))
build_dataframe(list) == SortRows(DataFrame(list))

\* -------------------------------------------------------------- initial
\* every field but candle_list as the constructors leave it
InitFields ==
    /\ data_queue = <<>>
    /\ metrics = [message_count |-> 0, error_count |-> 0]
    /\ timestamp = None
    /\ close = None
    /\ inter_candle_df_att = None
    /\ op = "init"
    /\ branch = "none"
    /\ ret = None
    /\ polled = 0
    /\ extended = 0
    /\ frame = None
    /\ accepted = <<>>
    /\ delivered = <<>>
    /\ pc = "idle"

\* the historical fetch has returned
Fetched ==
    /\ end_time = T0 + MaxSpan
    /\ utc_offset = 0
    /\ chunks = <<>>
    /\ current_end = T0 + MaxSpan
    /\ fetch_pc = "done"
    /\ timeframe = "1min"

InitCommon ==
    /\ candle_list \in ValidBackfills
    /\ InitFields
    /\ Fetched

\* the client after ws.start(): one connection thread, connection open
Started ==
    /\ running = TRUE
    /\ ws = "open"
    /\ ws_threads = 1

\* the standalone script src/live_data_update.py is not running
NotLaunched == standalone = [candle_list |-> <<>>, loop |-> "idle"]

\* LiveDataUpdater.__init__, then start up to the first iteration of its loop
Init ==
    /\ InitCommon
    /\ NotLaunched
    /\ Started
    /\ loop = "running"
    /\ max_candles \in 1 .. MaxCap
    /\ bars_lookback = 0
    /\ df_to_trade = None

\* ------------------------------------------------------------- producer
\* KucoinCandlestickWebSocket._on_message. The wall-clock stamp last_message_at
\* is read by nothing in the engine and is left out of the state.
_on_message(message) ==
    /\ op' = "_on_message"
    /\ IF message.kind = "garbage"
       THEN \* json.JSONDecodeError: logged only
            UNCHANGED <<data_queue, metrics>>
       ELSE IF message.kind = "json_nondict"
       THEN \* data.get raises, caught by except Exception
            /\ metrics.error_count < MaxErrors
            /\ metrics' = [metrics EXCEPT !.error_count = @ + 1]
            /\ UNCHANGED data_queue
       ELSE IF message.type = "message" /\ message.has_data
            THEN /\ metrics.message_count < MaxEvents
                 /\ IF "bad_data" \in DOMAIN message
                    THEN \* the item assignment on data['data'] raises after
                         \* the message was counted; except Exception
                         /\ metrics.error_count < MaxErrors
                         /\ metrics' = [metrics EXCEPT !.message_count = @ + 1,
                                                       !.error_count = @ + 1]
                         /\ UNCHANGED data_queue
                    ELSE /\ metrics' = [metrics EXCEPT !.message_count = @ + 1]
                         /\ data_queue' = put_nowait(data_queue, time_received(message.data))
            ELSE UNCHANGED <<data_queue, metrics>>
    /\ UNCHANGED <<max_candles, bars_lookback, candle_list, timestamp, close,
                   df_to_trade, inter_candle_df_att, branch, ret,
                   polled, extended, clientVars, loop, fetchVars, standalone,
                   delivered, pc>>

\* the connection thread delivers a well-formed frame
OnMessage ==
    \E message \in Messages :
        _on_message(message) /\ UNCHANGED <<frame, accepted>>

\* ------------------------------------------- consumer, LiveDataUpdater
\* LiveDataUpdater.process_data(data) for a dequeued record
process_data(data) ==
    IF "candles" \notin DOMAIN data
    THEN \* data['candles'] raises KeyError, which nothing in start catches
         /\ loop' = "crashed"
         /\ branch' = "error"
         /\ UNCHANGED <<candle_list, close>>
    ELSE LET candle == data.candles
         IN  /\ close' = Some(candle[2])
             /\ IF is_new_candle(candle_list, candle)
                THEN /\ candle_list' = add_new_candle(candle_list, candle, max_candles)
                     /\ branch' = "add_new_candle"
                ELSE /\ candle_list' = update_last_candle(candle_list, candle)
                     /\ branch' = "update_last_candle"
             \* a candle of fewer than seven fields is stored; the DataFrame
             \* constructor then pads it when a seven-field row is in the
             \* frame and raises ValueError when it is the only row (always
             \* so in update_last_candle). A short candle is never appended
             \* behind another: the short events are of one openTime.
             /\ loop' = IF /\ "short" \in DOMAIN data
                           /\ \/ ~is_new_candle(candle_list, candle)
                              \/ candle_list = <<>>
                              \/ max_candles = 1
                        THEN "crashed" ELSE loop

\* one iteration of the loop of LiveDataUpdater.start
start ==
    /\ loop = "running"
    /\ op' = "process_data"
    /\ LET got == get_data(data_queue)
       IN  /\ data_queue' = got.queue
           /\ IF got.data # None
              THEN process_data(got.data[1])
              ELSE \* get_data timed out: process_data(None) does nothing
                   /\ branch' = "none"
                   /\ UNCHANGED <<candle_list, close, loop>>
    /\ UNCHANGED <<max_candles, bars_lookback, metrics, timestamp,
                   df_to_trade, inter_candle_df_att, ret, polled, extended,
                   clientVars, frame, fetchVars, standalone, stepVars>>

Next == OnMessage \/ start

Spec == Init /\ [][Next]_vars

\* ----------------------------------------------- consumer, CandleUpdate
\* CandleUpdate.__init__ (development variant)
InitCU ==
    /\ InitCommon
    /\ NotLaunched
    /\ Started
    /\ loop = "idle"
    /\ bars_lookback \in 1 .. MaxCap
    /\ max_candles = 0
    /\ df_to_trade = Some(build_dataframe(candle_list))

\* new_candle_update that returns the frame on every call
new_candle_result_always(appended, df) ==
    Some(df)

\* the value new_candle_update returns: df_to_trade on the append branch,
\* None (the implicit return) otherwise
new_candle_result(appended, df) ==
    IF appended THEN Some(df) ELSE None

\* new_candle_update after process_candle_data has returned candle: the
\* comparison with the tail and the two branches
merge_candle(candle) ==
    IF candle_list = <<>>
    THEN \* candle_list[-1] raises IndexError, caught by the except
         /\ branch' = "error"
         /\ ret' = None
         /\ UNCHANGED <<candle_list, df_to_trade, polled, extended>>
    ELSE IF candle[1] # Last(candle_list)[1]
    THEN LET list == add_new_candle(candle_list, candle, bars_lookback)
             df == DataFrame(SliceFrom(list, -bars_lookback))
         IN  /\ candle_list' = list
             /\ branch' = "add_new_candle"
             /\ df_to_trade' = Some(df)
             /\ ret' = new_candle_result(TRUE, df)
             /\ extended' = extended + 1
             /\ polled' = polled + Len(new_candle_result(TRUE, df))
    ELSE /\ candle_list' = update_last_candle(candle_list, candle)
         /\ branch' = "update_last_candle"
         /\ ret' = new_candle_result(FALSE, df_to_trade[1])
         /\ polled' = polled + Len(new_candle_result(FALSE, df_to_trade[1]))
         /\ UNCHANGED <<df_to_trade, extended>>

\* CandleUpdate.new_candle_update; ws.get_data() has no timeout, so the call
\* waits until the queue holds an event
new_candle_update ==
    /\ data_queue # <<>>
    /\ op' = "new_candle_update"
    /\ data_queue' = Tail(data_queue)
    /\ LET candle == Head(data_queue).candles
       IN  \* process_candle_data
           /\ timestamp' = Some(candle[1])
           /\ close' = Some(candle[2])
           /\ merge_candle(candle)
    /\ UNCHANGED <<max_candles, bars_lookback, metrics, inter_candle_df_att,
                   clientVars, loop, frame, fetchVars, standalone, stepVars>>

\* CandleUpdate.inter_candle_df; it too waits for an event and dequeues it
inter_candle_df ==
    /\ data_queue # <<>>
    /\ op' = "inter_candle_df"
    /\ data_queue' = Tail(data_queue)
    /\ LET candle == Head(data_queue).candles
           df_temp == DataFrame(<<candle>>)
       IN  /\ timestamp' = Some(candle[1])
           /\ close' = Some(candle[2])
           /\ inter_candle_df_att' = Some(df_temp)
           /\ ret' = Some(df_temp)
    /\ branch' = "none"
    /\ UNCHANGED <<max_candles, bars_lookback, candle_list, metrics,
                   df_to_trade, polled, extended, clientVars, loop, frame, fetchVars, standalone, stepVars>>

NextCU == OnMessage \/ new_candle_update \/ inter_candle_df

SpecCU == InitCU /\ [][NextCU]_vars

\* ------------------------------ CandleUpdate, statement by statement
\* new_candle_update as the interpreter runs it: another thread can run, and
\* read the object, between any two of its statements.

\* the frames of this specification: two events of different intervals and
\* payloads, and a data message whose data is no object. Every event that
\* reaches the queue here is a candle record.
StepMessages ==
    {[kind |-> "json", type |-> "message", has_data |-> TRUE, bad_data |-> TRUE]} \cup
    {[kind |-> "json", type |-> "message", has_data |-> TRUE,
      data |-> [candles |-> c]] : c \in {<<T0, 1>>, <<T0 + 1, 2>>}}

InitSteps ==
    /\ InitCU
    /\ Len(candle_list) <= 1

\* _on_message, with the history of what it enqueued
Put ==
    \E message \in StepMessages :
        /\ _on_message(message)
        /\ frame' = Some(message)
        /\ accepted' = IF Len(data_queue') > Len(data_queue)
                       THEN Append(accepted, Last(data_queue'))
                       ELSE accepted

\* data = self.ws.get_data(): waits for an event, with the history of what
\* it returned
Get ==
    /\ pc = "idle"
    /\ data_queue # <<>>
    /\ op' = "get_data"
    /\ LET got == get_data(data_queue)
       IN  /\ data_queue' = got.queue
           /\ delivered' = delivered \o got.data
    /\ pc' = "timestamp"
    /\ UNCHANGED <<max_candles, bars_lookback, candle_list, metrics, timestamp,
                   close, df_to_trade, inter_candle_df_att, branch, ret, polled,
                   extended, clientVars, loop, frame, fetchVars, standalone, accepted>>

\* the event get_data returned last: the local data of new_candle_update
Data == Last(delivered)

\* process_candle_data: self.timestamp = candle[0]
SetTimestamp ==
    /\ pc = "timestamp"
    /\ op' = "process_candle_data"
    /\ timestamp' = Some(Data.candles[1])
    /\ pc' = "close"
    /\ UNCHANGED <<max_candles, bars_lookback, candle_list, data_queue, metrics,
                   close, df_to_trade, inter_candle_df_att, branch, ret, polled,
                   extended, clientVars, loop, frame, fetchVars, standalone, accepted,
                   delivered>>

\* process_candle_data: self.open = candle[1] ... self.turnover = candle[6]
SetClose ==
    /\ pc = "close"
    /\ op' = "process_candle_data"
    /\ close' = Some(Data.candles[2])
    /\ pc' = "merge"
    /\ UNCHANGED <<max_candles, bars_lookback, candle_list, data_queue, metrics,
                   timestamp, df_to_trade, inter_candle_df_att, branch, ret,
                   polled, extended, clientVars, loop, frame, fetchVars, standalone,
                   accepted, delivered>>

\* the rest of new_candle_update
Merge ==
    /\ pc = "merge"
    /\ op' = "new_candle_update"
    /\ merge_candle(Data.candles)
    /\ pc' = "idle"
    /\ UNCHANGED <<max_candles, bars_lookback, data_queue, metrics, timestamp,
                   close, inter_candle_df_att, clientVars, loop, frame,
                   fetchVars, standalone, accepted, delivered>>

NextSteps == Put \/ Get \/ SetTimestamp \/ SetClose \/ Merge

SpecSteps == InitSteps /\ [][NextSteps]_vars

\* ------------------------------------------- life cycle, LiveDataUpdater
\* LiveDataUpdater.__init__ with KucoinCandlestickWebSocket.__init__: the
\* client is constructed, not started
InitEngine ==
    /\ InitCommon
    /\ NotLaunched
    /\ Len(candle_list) <= 1
    /\ max_candles = MaxCap
    /\ bars_lookback = 0
    /\ df_to_trade = None
    /\ running = FALSE
    /\ ws = "none"
    /\ ws_threads = 0
    /\ loop = "idle"

\* the fields of the client that stop can touch
Client ==
    [running |-> running, ws |-> ws, ws_threads |-> ws_threads,
     data_queue |-> data_queue, metrics |-> metrics]

\* a stop that empties the queue when the connection is already closed
stop_drains_when_closed(c) ==
    [c EXCEPT !.running = FALSE,
              !.ws = IF c.ws = "none" THEN "none" ELSE "closed",
              !.ws_threads = IF c.ws = "open" THEN @ - 1 ELSE @,
              !.data_queue = IF c.ws = "closed" THEN <<>> ELSE @]

\* KucoinCandlestickWebSocket.stop: the client after the call. Closing the
\* connection ends its thread; the final metrics are only logged.
stop_client(c) ==
    [c EXCEPT !.running = FALSE,
              !.ws = IF c.ws = "none" THEN "none" ELSE "closed",
              !.ws_threads = IF c.ws = "open" THEN @ - 1 ELSE @]

\* an error callback that gives up: it closes the client as stop() does
count_error_and_close(c) ==
    [c EXCEPT !.metrics.error_count = @ + 1,
              !.running = FALSE,
              !.ws = "closed",
              !.ws_threads = IF c.ws = "open" THEN @ - 1 ELSE @]

\* KucoinCandlestickWebSocket._on_error: the client after the callback
count_error(c) ==
    [c EXCEPT !.metrics.error_count = @ + 1]

\* the assignments of a call of ws.stop()
CallStop ==
    LET c == stop_client(Client)
    IN  /\ running' = c.running
        /\ ws' = c.ws
        /\ ws_threads' = c.ws_threads
        /\ data_queue' = c.data_queue
        /\ metrics' = c.metrics

\* the entry of LiveDataUpdater.start: ws.start(), then the loop. _get_token
\* raises when the token request fails; the exception leaves start before
\* anything was assigned. A connection replaced while open keeps its thread.
ws_start ==
    /\ loop # "running"
    /\ \E token_ok \in BOOLEAN :
          IF token_ok
          THEN /\ op' = "ws_start"
               /\ ws' = "open"
               /\ running' = TRUE
               /\ ws_threads' = ws_threads + 1
               /\ loop' = "running"
          ELSE /\ op' = "ws_start_failed"
               /\ loop' = "crashed"
               /\ UNCHANGED <<ws, running, ws_threads>>
    /\ UNCHANGED <<max_candles, bars_lookback, candle_list, data_queue, metrics,
                   timestamp, close, df_to_trade, inter_candle_df_att, branch,
                   ret, polled, extended, frame, fetchVars, standalone, stepVars>>

\* a connection thread delivers a frame of any shape
OnFrame ==
    /\ ws_threads > 0
    /\ \E message \in EngineMessages :
          _on_message(message) /\ frame' = Some(message) /\ UNCHANGED accepted

\* KucoinCandlestickWebSocket._on_error, called by a connection thread
_on_error ==
    /\ ws_threads > 0
    /\ metrics.error_count < MaxErrors
    /\ op' = "_on_error"
    /\ LET c == count_error(Client)
       IN  /\ running' = c.running
           /\ ws' = c.ws
           /\ ws_threads' = c.ws_threads
           /\ data_queue' = c.data_queue
           /\ metrics' = c.metrics
    /\ UNCHANGED <<max_candles, bars_lookback, candle_list,
                   timestamp, close, df_to_trade, inter_candle_df_att, branch,
                   ret, polled, extended, loop, frame, fetchVars, standalone, stepVars>>

\* KucoinCandlestickWebSocket.stop called from outside the loop
stop ==
    /\ op' = IF op \in {"stop", "stop_again"} THEN "stop_again" ELSE "stop"
    /\ CallStop
    /\ UNCHANGED <<max_candles, bars_lookback, candle_list, timestamp, close,
                   df_to_trade, inter_candle_df_att, branch, ret, polled,
                   extended, loop, frame, fetchVars, standalone, stepVars>>

\* the except clause of LiveDataUpdater.start: KeyboardInterrupt raised in
\* the loop ends it and calls ws.stop()
KeyboardInterrupt ==
    /\ loop = "running"
    /\ op' = "KeyboardInterrupt"
    /\ loop' = "stopped"
    /\ CallStop
    /\ UNCHANGED <<max_candles, bars_lookback, candle_list, timestamp, close,
                   df_to_trade, inter_candle_df_att, branch, ret, polled,
                   extended, frame, fetchVars, standalone, stepVars>>

NextEngine ==
    ws_start \/ OnFrame \/ _on_error \/ start \/ stop \/ KeyboardInterrupt

SpecEngine == InitEngine /\ [][NextEngine]_vars

\* ------------------------------------------ historical fetch, CandleUpdate
\* Times are counted in intervals of the 1min timeframe, so the 60 seconds
\* that fetch_all_candles steps back are one interval.

\* int(time.mktime(time.strptime(s, ...))): the string is read as local time
mktime(s) == s - utc_offset

\* time.strftime(..., time.gmtime(ts)): the stamp is written as UTC
gmtime(ts) == ts

\* the exchange answering GET /api/v1/market/candles: bars exist for the
\* intervals T0 .. end_time; the answer holds those with
\* startAt <= openTime <= endAt, newest first, at most PageSize of them
kucoin_candles(startAt, endAt) ==
    LET hi == Min(endAt, end_time)
        lo == Max(startAt, T0)
    IN  IF hi < lo THEN <<>>
        ELSE [i \in 1 .. Min(PageSize, hi - lo + 1) |-> <<hi - i + 1, 1>>]

\* CandleUpdate.calculate_start_time_with_bars
start_time == end_time - bars_lookback

\* chunks.sort(key=lambda x: x[0])
RECURSIVE SortCandles(_)
InsertCandle(sorted, c) ==
    LET k == Cardinality({i \in 1 .. Len(sorted) : sorted[i][1] <= c[1]})
    IN  SubSeq(sorted, 1, k) \o <<c>> \o SubSeq(sorted, k + 1, Len(sorted))
SortCandles(list) ==
    IF list = <<>> THEN <<>>
    ELSE InsertCandle(SortCandles(SubSeq(list, 1, Len(list) - 1)), Last(list))

\* the return value of fetch_all_candles: chunks sorted, then the candles
\* inside the requested range
InRange(c) == mktime(start_time) <= c[1] /\ c[1] <= mktime(end_time)
fetch_all_candles_result(all) == SelectSeq(SortCandles(all), InRange)

\* a chunk request whose error is swallowed: the loop is left and what was
\* fetched so far is returned
error_returns_partial(all) ==
    [fetch_pc |-> "done", candle_list |-> fetch_all_candles_result(all)]

\* the outcome of a chunk request that raises (raise_for_status, or the
\* Exception raised for a code other than "200000") when chunks holds all:
\* nothing catches it in fetch_all_candles or in the constructor, so the
\* constructor is left and no candle list is assigned
raise_api_error(all) ==
    [fetch_pc |-> "failed", candle_list |-> <<>>]

\* CandleUpdate.__init__ up to the call of fetch_all_candles
InitFetch ==
    /\ InitFields
    /\ NotLaunched
    /\ candle_list = <<>>
    /\ bars_lookback \in 1 .. MaxCap
    /\ max_candles = 0
    /\ df_to_trade = None
    /\ running = FALSE
    /\ ws = "none"
    /\ ws_threads = 0
    /\ loop = "idle"
    /\ end_time \in Times
    /\ utc_offset \in (0 - MaxOffset) .. MaxOffset
    /\ chunks = <<>>
    /\ current_end = end_time
    /\ fetch_pc = "loop"
    /\ timeframe = "1min"

\* one iteration of the loop of fetch_all_candles. The request can fail
\* (raise_for_status, API error code); the exception leaves the constructor.
\* The iteration that breaks also sorts, filters and returns, and __init__
\* goes on to build df_to_trade. The loop need not end (chunks can grow
\* for ever), so the model stops following it at MaxChunks candles.
fetch_all_candles ==
    /\ fetch_pc = "loop"
    /\ Len(chunks) < MaxChunks
    /\ \E request_ok \in BOOLEAN :
          IF ~request_ok
          THEN /\ op' = "fetch_failed"
               /\ fetch_pc' = raise_api_error(chunks).fetch_pc
               /\ candle_list' = raise_api_error(chunks).candle_list
               /\ UNCHANGED <<chunks, current_end, df_to_trade>>
          ELSE LET start_ts == mktime(start_time)
                   chunk == kucoin_candles(mktime(start_time), mktime(current_end))
                   all == chunks \o chunk
               IN  /\ op' = "fetch_all_candles"
                   /\ chunks' = all
                   /\ IF chunk = <<>> \/ Last(chunk)[1] <= start_ts
                      THEN /\ fetch_pc' = "done"
                           /\ candle_list' = fetch_all_candles_result(all)
                           /\ df_to_trade' =
                                  Some(build_dataframe(fetch_all_candles_result(all)))
                           /\ UNCHANGED current_end
                      ELSE /\ current_end' = gmtime(Last(chunk)[1] - 1)
                           /\ UNCHANGED <<fetch_pc, candle_list, df_to_trade>>
    /\ UNCHANGED <<max_candles, bars_lookback, data_queue, metrics, timestamp,
                   close, inter_candle_df_att, branch, ret, polled, extended,
                   clientVars, loop, frame, end_time, utc_offset, timeframe,
                   stepVars, standalone>>

NextFetch == fetch_all_candles

SpecFetch == InitFetch /\ [][NextFetch]_vars

\* ------------------------------------------------ construction, CandleUpdate
\* the timeframe strings passed to the constructor; calculate_start_time_
\* with_bars accepts those that end in min, hour or day
Timeframes == {"1min", "1week"}
supported(tf) == tf \in {"1min"}

\* the call CandleUpdate(symbol, timeframe, bars_lookback) is entered
InitConstruct ==
    /\ InitFields
    /\ NotLaunched
    /\ candle_list = <<>>
    /\ bars_lookback \in (0 - 1) .. MaxCap
    /\ timeframe \in Timeframes
    /\ max_candles = 0
    /\ df_to_trade = None
    /\ running = FALSE
    /\ ws = "none"
    /\ ws_threads = 0
    /\ loop = "idle"
    /\ end_time \in Times
    /\ utc_offset \in (0 - MaxOffset) .. MaxOffset
    /\ chunks = <<>>
    /\ current_end = end_time
    /\ fetch_pc = "new"

\* CandleUpdate.__init__ up to fetch_all_candles: set_time_range with
\* calculate_start_time_with_bars, which raises ValueError for a timeframe
\* it does not know, then initialize_objects_needed
calculate_start_time_with_bars ==
    /\ fetch_pc = "new"
    /\ IF supported(timeframe)
       THEN op' = "set_time_range" /\ fetch_pc' = "loop"
       ELSE op' = "ValueError" /\ fetch_pc' = "failed"
    /\ UNCHANGED <<max_candles, bars_lookback, candle_list, data_queue, metrics,
                   timestamp, close, df_to_trade, inter_candle_df_att, branch,
                   ret, polled, extended, clientVars, loop, frame, end_time,
                   utc_offset, chunks, current_end, timeframe, stepVars,
                   standalone>>

\* CandleUpdate.start_ws on a constructed object: ws.start(); an exception
\* of the token request is caught and printed. Nothing keeps a caller from
\* starting twice; the model follows the threads up to MaxThreads.
start_ws ==
    /\ fetch_pc = "done"
    /\ ws_threads < MaxThreads
    /\ \E token_ok \in BOOLEAN :
          IF token_ok
          THEN /\ op' = "start_ws"
               /\ ws' = "open"
               /\ running' = TRUE
               /\ ws_threads' = ws_threads + 1
          ELSE /\ op' = "start_ws_failed"
               /\ UNCHANGED <<ws, running, ws_threads>>
    /\ UNCHANGED <<max_candles, bars_lookback, candle_list, data_queue, metrics,
                   timestamp, close, df_to_trade, inter_candle_df_att, branch,
                   ret, polled, extended, loop, frame, fetchVars, standalone, stepVars>>

NextConstruct == calculate_start_time_with_bars \/ fetch_all_candles \/ start_ws

SpecConstruct == InitConstruct /\ [][NextConstruct]_vars

\* ------------------------------------------- the two variants side by side
\* The packaged LiveDataUpdater with max_candles = Capacity and the standalone
\* CandleUpdate, whose loop has the capacity written in, are built on the
\* same non-empty backfill and given the same dequeued events.
InitVariants ==
    /\ InitCommon
    /\ candle_list # <<>>
    /\ Started
    /\ loop = "running"
    /\ max_candles = Capacity
    /\ bars_lookback = 0
    /\ df_to_trade = None
    /\ standalone = [candle_list |-> candle_list, loop |-> "running"]

\* one iteration of the loop of the standalone CandleUpdate.start on a
\* dequeued record: the object after it. process_candle_data reads all
\* seven fields of the candle before the list is touched; any exception
\* leaves the loop through the except around it.
standalone_start(s, data) ==
    IF "candles" \notin DOMAIN data \/ "short" \in DOMAIN data
    THEN \* KeyError on data['candles'], IndexError on candle[5]
         [s EXCEPT !.loop = "crashed"]
    ELSE LET candle == data.candles
         IN  IF s.candle_list = <<>>
             THEN \* candle_list[-1] raises IndexError
                  [s EXCEPT !.loop = "crashed"]
             ELSE IF candle[1] # Last(s.candle_list)[1]
             THEN [s EXCEPT !.candle_list = add_new_candle(@, candle, Capacity)]
             ELSE [s EXCEPT !.candle_list = update_last_candle(@, candle)]

\* one event dequeued and handed to the merge step of each variant whose
\* loop is still running
start_variants ==
    /\ loop = "running" \/ standalone.loop = "running"
    /\ op' = "process_data"
    /\ LET got == get_data(data_queue)
       IN  /\ data_queue' = got.queue
           /\ IF got.data # None /\ loop = "running"
              THEN process_data(got.data[1])
              ELSE /\ branch' = "none"
                   /\ UNCHANGED <<candle_list, close, loop>>
           /\ standalone' =
                  IF got.data # None /\ standalone.loop = "running"
                  THEN standalone_start(standalone, got.data[1])
                  ELSE standalone
    /\ UNCHANGED <<max_candles, bars_lookback, metrics, timestamp,
                   df_to_trade, inter_candle_df_att, ret, polled, extended,
                   clientVars, frame, fetchVars, stepVars>>

NextVariants == OnFrame \/ start_variants

SpecVariants == InitVariants /\ [][NextVariants]_vars

\* =============================================================== claims
\* the step is a merge step of LiveDataUpdater: process_data ran on a
\* dequeued event
Merged == op' = "process_data" /\ data_queue # <<>>
\* the step is a call of one of CandleUpdate's query operations
Polled == op' = "new_candle_update" /\ data_queue # <<>>
Peeked == op' = "inter_candle_df" /\ data_queue # <<>>
\* the event the step dequeues
Event == Head(data_queue).candles

OpenTimes(list) == [i \in 1 .. Len(list) |-> list[i][1]]

\* the classifier of the design: the disposition of an event against a Series
Disposition(candle, list) ==
    IF list = <<>> \/ candle[1] > Last(list)[1] THEN "Extend"
    ELSE IF candle[1] = Last(list)[1] THEN "Revise"
    ELSE "Discard"

\* C1: from a strictly increasing backfill, after every append made by the
\* merge step the openTimes of candle_list are strictly increasing, and every
\* replace-of-last leaves the length of candle_list unchanged.
C1_OrderingInvariant ==
    [][/\ (Merged /\ branch' = "add_new_candle"
              => StrictlyIncreasing(candle_list'))
       /\ (Merged /\ branch' = "update_last_candle"
              => Len(candle_list') = Len(candle_list))]_vars

\* C2: len(candle_list) <= max_candles in every reachable state, and an append
\* evicts exactly one bar from the front when the new bar would make the list
\* exceed max_candles, and none otherwise.
C2_CapacityInvariant ==
    /\ [](Len(candle_list) <= max_candles)
    /\ [][Merged /\ branch' = "add_new_candle" =>
            IF Len(candle_list) + 1 > max_candles
            THEN candle_list' = Tail(Append(candle_list, Event))
            ELSE candle_list' = Append(candle_list, Event)]_vars

\* the Series is within its capacity (not so after an over-long backfill)
WithinCapacity == Len(candle_list) <= max_candles

\* C3: an event whose openTime is strictly less than the openTime of the tail
\* of candle_list leaves candle_list exactly as it was (stated for a Series
\* within its capacity).
C3_StaleDiscarded ==
    [][Merged /\ WithinCapacity
         /\ candle_list # <<>> /\ Event[1] < Last(candle_list)[1]
          => candle_list' = candle_list]_vars

\* C4: an event whose openTime equals the tail's openTime replaces the tail of
\* candle_list with the event's values; the length and every other bar stay.
C4_ReviseReplacesTail ==
    [][Merged /\ candle_list # <<>> /\ Event[1] = Last(candle_list)[1]
          => /\ Len(candle_list') = Len(candle_list)
             /\ Last(candle_list') = Event
             /\ \A i \in 1 .. (Len(candle_list) - 1) :
                    candle_list'[i] = candle_list[i]]_vars

\* C4 witness: a Revise has replaced the backfilled tail bar T0 + 2 (payload 1)
\* by an event's values (payload 2) under the two older bars.
C4_Witness ==
    /\ op = "process_data"
    /\ branch = "update_last_candle"
    /\ candle_list = <<<<T0, 1>>, <<T0 + 1, 1>>, <<T0 + 2, 2>>>>

\* C5: the merge step takes exactly the disposition of the classifier: Extend
\* (the event is appended) when the event is strictly newer than the tail or
\* the Series is empty, Revise (the tail is replaced) when equal, Discard
\* (candle_list untouched) when strictly older; a Revise or Discard event
\* applied twice leaves candle_list as applying it once does (stated for a
\* Series within its capacity).
C5_ClassifierTotality ==
    [][Merged /\ WithinCapacity =>
          /\ Disposition(Event, candle_list) = "Extend"
                => /\ branch' = "add_new_candle"
                   /\ Last(candle_list') = Event
          /\ Disposition(Event, candle_list) = "Revise"
                => /\ branch' = "update_last_candle"
                   /\ candle_list' = update_last_candle(candle_list, Event)
                   /\ Disposition(Event, candle_list') = "Revise"
          /\ Disposition(Event, candle_list) = "Discard"
                => /\ branch' \notin {"add_new_candle", "update_last_candle"}
                   /\ candle_list' = candle_list]_vars

\* the rows of a frame, as bars
Bar(candle) == Row(candle)

C7_ReportsCompletedBar ==
    [][Polled /\ ret' # None
         /\ Len(candle_list) >= 2 /\ Len(candle_list) <= bars_lookback
         /\ Event[1] > Last(candle_list)[1]
          => /\ branch' = "add_new_candle"
             /\ Last(ret'[1]) = Bar(Last(candle_list))
             /\ Last(ret'[1]) # Bar(Event)]_vars

\* C8: inter_candle_df returns the current tail of candle_list and is a pure
\* read: candle_list and the contents of data_queue are as before the call.
C8_PeekIsPureRead ==
    [][op' = "inter_candle_df" /\ candle_list # <<>>
          => /\ ret' = Some(<<Bar(Last(candle_list))>>)
             /\ candle_list' = candle_list
             /\ data_queue' = data_queue]_vars

\* C9: no event leaves data_queue without the matching append or
\* replace-of-last: after a query operation has dequeued an event, the tail of
\* candle_list carries that event's values (stated for a non-empty Series).
C9_EveryEventApplied ==
    [][(Polled \/ Peeked) /\ candle_list # <<>>
          => Last(candle_list') = Event]_vars

\* the scenario's starting point: capacity 3, bars T0, T0+1, T0+2, an event waiting
InScenario ==
    /\ bars_lookback = 3
    /\ OpenTimes(candle_list) = <<T0, T0 + 1, T0 + 2>>
    /\ data_queue # <<>>

\* C10: with capacity 3 and the backfill T0, T0+1, T0+2: an event for T0+2
\* leaves the length at 3 and updates bar T0+2, and inter_candle_df returns
\* bar T0+2 without consuming anything; an event for T0+3 makes the Series
\* T0+1, T0+2, T0+3 and new_candle_update returns bar T0+2.
C10_Scenario ==
    [][/\ (InScenario /\ Polled /\ Event[1] = T0 + 2
              => /\ Len(candle_list') = 3
                 /\ Last(candle_list') = Event)
       /\ (InScenario /\ Peeked /\ Event[1] \in {T0 + 2, T0 + 3}
              => /\ ret' = Some(<<Bar(Last(candle_list))>>)
                 /\ data_queue' = data_queue)
       /\ (InScenario /\ Polled /\ Event[1] = T0 + 3
              => /\ OpenTimes(candle_list') = <<T0 + 1, T0 + 2, T0 + 3>>
                 /\ ret' = Some(<<Bar(candle_list[3])>>))]_vars

\* the step is a call of the producer callback
Produced == op' = "_on_message"

\* C11: the queue never holds more than maxsize events; a callback that finds
\* the queue full returns with the queued events and their order unchanged
\* (the new event is the one dropped); a callback that finds room appends the
\* new event behind the queued ones.
C11_DropNewestOnFull ==
    /\ [](Len(data_queue) <= MaxQueue)
    /\ [][/\ (Produced /\ Len(data_queue) = MaxQueue
                 => data_queue' = data_queue)
          /\ (Produced /\ Len(data_queue) < MaxQueue
                 => SubSeq(data_queue', 1, Len(data_queue)) = data_queue)]_vars

\* a data message arrived while the queue was full: more messages counted
\* than the queue holds, and the consumer has not dequeued anything yet
C11_Witness ==
    /\ op = "_on_message"
    /\ close = None
    /\ Len(data_queue) = MaxQueue
    /\ metrics.message_count > MaxQueue

\* the producer step drops its event: a data message that finds the queue full
Dropped ==
    /\ Produced
    /\ metrics'.message_count > metrics.message_count
    /\ Len(data_queue) = MaxQueue
\* the producer step enqueues its event
Accepted == Produced /\ Len(data_queue') > Len(data_queue)
\* ConnectionMetrics has no counter of dropped events. Of its two counters
\* a dropping step leaves error_count alone, so message_count is the only
\* one that moves when an event is dropped.
DropLeavesErrorCount ==
    [][Dropped => metrics'.error_count = metrics.error_count]_vars

\* C12: the counter that moves on a drop, message_count, goes up by exactly 1
\* on every step that drops an event and is left alone by every step that
\* enqueues one.
C12_DroppedEventAccounting ==
    [][/\ (Dropped => metrics'.message_count = metrics.message_count + 1)
       /\ (Accepted => metrics'.message_count = metrics.message_count)]_vars

\* C15: a CandleUpdate constructed on an empty history treats its first live
\* event as an append: after the query that takes it candle_list holds that
\* bar; and while candle_list is below capacity an appended bar makes it
\* longer by one.
C15_InsufficientHistoryIsSoft ==
    [][/\ (Polled /\ candle_list = <<>> => candle_list' = <<Event>>)
       /\ (Polled /\ branch' = "add_new_candle"
               /\ Len(candle_list) < bars_lookback
             => Len(candle_list') = Len(candle_list) + 1)]_vars

\* the producer step was handed a payload that json.loads cannot parse
Unparseable == Produced /\ frame' # None /\ frame'[1].kind = "garbage"

\* C16: a callback handed an unparseable payload increments error_count by
\* exactly 1 and enqueues nothing.
C16_UnparseableCounted ==
    [][Unparseable => /\ metrics'.error_count = metrics.error_count + 1
                      /\ data_queue' = data_queue]_vars

\* the merge step dequeues a record that is no candle record
MergedMalformed ==
    Merged /\ Head(data_queue) \in {time_received(d) : d \in MalformedRecords}

\* C17: a merge step on a malformed record leaves the loop running and
\* candle_list as it was.
C17_MalformedNeverFatal ==
    [][MergedMalformed => /\ loop' = "running"
                          /\ candle_list' = candle_list]_vars

\* C18: the loop of LiveDataUpdater.start observes stop(): an iteration
\* that begins after stop() cleared the running flag ends the loop.
C18_StopObservedByLoop ==
    [][op' = "process_data" /\ ~running => loop' # "running"]_vars

\* C19: stop() can be called in every state, and a stop() that directly
\* follows a stop() changes nothing: running flag, connection, connection
\* threads, queue and counters are as the first call left them.
C19_StopIdempotent ==
    /\ [](ENABLED stop)
    /\ [][op' = "stop_again" => Client' = Client]_vars

\* stop() was called twice in a row on a client that had streamed: events
\* are queued, an error was counted, the connection is closed
C19_Witness ==
    /\ op = "stop_again"
    /\ ws = "closed"
    /\ ~running
    /\ data_queue # <<>>
    /\ metrics.error_count > 0

\* C20: once stop() has closed the connection the client stays closed: no
\* step reopens the connection, none enqueues an event, and candle_list is
\* never changed again.
C20_ClosedIsTerminal ==
    [][ws = "closed" => /\ ws' = "closed"
                        /\ Len(data_queue') <= Len(data_queue)
                        /\ candle_list' = candle_list]_vars

\* fetch_all_candles has returned and the constructor has its candle_list
Constructed == op = "fetch_all_candles" /\ fetch_pc = "done"

\* C13: the candle_list that the historical fetch hands over holds exactly
\* one bar per openTime, also when the chunks it was built from overlap.
C13_BackfillDeduplicated ==
    Constructed =>
        \A i, j \in 1 .. Len(candle_list) :
            i # j => candle_list[i][1] # candle_list[j][1]

\* C14: at construction candle_list has at most bars_lookback entries; they
\* ascend by openTime and end with the most recent bar. (Stated for a host
\* on UTC, where the chunks do not overlap.)
C14_BackfillWindow ==
    Constructed /\ utc_offset = 0 =>
        /\ Len(candle_list) <= bars_lookback
        /\ StrictlyIncreasing(candle_list)
        /\ candle_list # <<>> => Last(candle_list)[1] = end_time

\* the constructor was called with a configuration it should refuse
BadConfiguration == ~supported(timeframe) \/ bars_lookback <= 0

\* C21: a CandleUpdate constructed with an unsupported timeframe or a
\* non-positive bars_lookback fails in the constructor before anything else
\* happens: no chunk is requested, no candle list or frame is assigned, no
\* connection is opened.
C21_ConfigurationFailsFast ==
    BadConfiguration =>
        /\ op \notin {"fetch_all_candles", "fetch_failed", "start_ws"}
        /\ fetch_pc # "done"
        /\ chunks = <<>> /\ candle_list = <<>> /\ df_to_trade = None
        /\ ws = "none"

\* C22: a chunk request that fails ends the constructor with the error:
\* no candle list and no frame is assigned, not even the chunks fetched so
\* far, and on the failed construction no connection is ever started.
C22_UpstreamErrorSurfaced ==
    /\ [][op' = "fetch_failed" =>
              fetch_pc' = "failed" /\ candle_list' = <<>>]_vars
    /\ [](fetch_pc = "failed" =>
              /\ candle_list = <<>> /\ df_to_trade = None
              /\ ws = "none" /\ ~running /\ ws_threads = 0
              /\ ~ENABLED start_ws)

\* a later chunk request failed after an earlier one had delivered bars
C22_Witness ==
    /\ op = "fetch_failed"
    /\ fetch_pc = "failed"
    /\ chunks # <<>>

\* C23: the query operations do not wait: while the queue is empty a call
\* of new_candle_update and a call of inter_candle_df can complete.
C23_QueriesNonBlocking ==
    data_queue = <<>> =>
        ENABLED new_candle_update /\ ENABLED inter_candle_df

\* C24: every error callback adds exactly 1 to error_count and changes
\* nothing else: queue, candle_list, message_count, running flag,
\* connection and loop are as before, whatever the count has reached; so
\* the loop stays able to take its next iteration.
C24_ErrorsNeverStop ==
    /\ [][op' = "_on_error" =>
              /\ metrics'.error_count = metrics.error_count + 1
              /\ metrics'.message_count = metrics.message_count
              /\ data_queue' = data_queue
              /\ candle_list' = candle_list
              /\ <<running, ws, ws_threads, loop>>' = <<running, ws, ws_threads, loop>>
          ]_vars
    /\ [](op = "_on_error" /\ loop = "running" => ENABLED start)

\* the error callback ran as often as the bound allows while the loop was
\* running with events waiting in the queue
C24_Witness ==
    /\ op = "_on_error"
    /\ metrics.error_count = MaxErrors
    /\ loop = "running"
    /\ running
    /\ data_queue # <<>>

\* the iteration of the loop finds no event: get_data times out
TimedOut == op' = "process_data" /\ data_queue = <<>>

\* C25: an iteration whose get_data times out leaves candle_list, the
\* last-seen fields, the counters and the queue as they were, and the loop
\* stays running.
C25_TimeoutIsNotAnError ==
    [][TimedOut => /\ candle_list' = candle_list
                   /\ close' = close
                   /\ metrics' = metrics
                   /\ data_queue' = data_queue
                   /\ loop' = "running"]_vars

\* a timeout after events had been merged
C25_Witness ==
    /\ op = "process_data"
    /\ branch = "none"
    /\ close # None
    /\ candle_list # <<>>
    /\ data_queue = <<>>

\* the bars of list other than its tail
NonTail(list) == SubSeq(list, 1, Len(list) - 1)

\* C27: a merge step never changes a bar that is not the tail: a
\* replace-of-last leaves every other bar in place, and after an append the
\* list is what is left of the old list, in order and unchanged, once some
\* bars were evicted from its front, followed by the new bar.
C27_NonTailImmutable ==
    [][/\ (Merged /\ branch' = "update_last_candle"
              => NonTail(candle_list') = NonTail(candle_list))
       /\ (Merged /\ branch' = "add_new_candle"
              => \E d \in 0 .. Len(candle_list) :
                    NonTail(candle_list') = SubSeq(candle_list, d + 1, Len(candle_list)))
      ]_vars

\* the tail was replaced while older bars were in the list
C27_Witness ==
    /\ op = "process_data"
    /\ branch = "update_last_candle"
    /\ Len(candle_list) >= 2
    /\ Last(candle_list)[2] # candle_list[1][2]

\* the same for the merge inside CandleUpdate.new_candle_update
NonTailImmutableCU ==
    [][/\ (Polled /\ branch' = "update_last_candle"
              => NonTail(candle_list') = NonTail(candle_list))
       /\ (Polled /\ branch' = "add_new_candle"
              => \E d \in 0 .. Len(candle_list) :
                    NonTail(candle_list') = SubSeq(candle_list, d + 1, Len(candle_list)))
      ]_vars

\* the iteration of fetch_all_candles goes on to another request
NextRequest == op' = "fetch_all_candles" /\ fetch_pc' = "loop"

\* C29: whatever the host's UTC offset, every request that follows another
\* has an end bound strictly earlier than the one before, so the loop
\* cannot go on for ever.
C29_PaginationTerminates ==
    [][NextRequest => mktime(current_end') < mktime(current_end)]_vars

\* C26: in every state, so whenever a concurrent reader looks, the
\* current-bar fields of the engine are those of one event: once both are
\* set, timestamp and close are the openTime and the payload of one of the
\* events that get_data returned.
C26_NoTornReads ==
    timestamp # None /\ close # None =>
        \E i \in 1 .. Len(delivered) :
            delivered[i].candles = <<timestamp[1], close[1]>>

\* C28: message_count is the number of events the processing step has
\* handled: when nothing is queued or in work and no error was counted,
\* it equals the number of events get_data has handed to the consumer.
C28_ProcessedEventAccounting ==
    data_queue = <<>> /\ pc = "idle" /\ metrics.error_count = 0 =>
        metrics.message_count = Len(delivered)

\* C30: the events get_data has returned, followed by those still queued,
\* are exactly the events _on_message enqueued, in the order of arrival.
C30_FifoDelivery ==
    delivered \o data_queue = accepted

\* two different events were returned in turn after a third had been
\* dropped on a full queue
C30_Witness ==
    /\ Len(delivered) >= 2
    /\ delivered[1] # delivered[2]
    /\ metrics.error_count = 0
    /\ metrics.message_count > Len(accepted)

\* the producer step is handed a JSON object that is no data message
\* (welcome, subscription ack, pong), or a data message
NonDataFrame ==
    /\ Produced
    /\ frame' # None
    /\ frame'[1].kind = "json"
    /\ ~(frame'[1].type = "message" /\ frame'[1].has_data)
DataFrameReceived ==
    /\ Produced
    /\ frame' # None
    /\ frame'[1].kind = "json"
    /\ frame'[1].type = "message"
    /\ frame'[1].has_data
\* the data message carries an object
ObjectDataFrameReceived == DataFrameReceived /\ "data" \in DOMAIN frame'[1]

\* the queued record is the received object with the arrival stamp added
StampedCopy(record, candlestick_data) ==
    /\ DOMAIN record = DOMAIN candlestick_data \cup {"time_received"}
    /\ \A k \in DOMAIN candlestick_data \ {"time_received"} :
           record[k] = candlestick_data[k]

\* C31 as stated: a frame that is no data message leaves data_queue and
\* both counters unchanged, and every frame of type 'message' with 'data'
\* enqueues exactly one record, stamped with time_received.
C31_EveryDataFrameEnqueuesOne ==
    [][/\ NonDataFrame => UNCHANGED <<data_queue, metrics>>
       /\ DataFrameReceived =>
              /\ Len(data_queue') = Len(data_queue) + 1
              /\ "time_received" \in DOMAIN Last(data_queue')]_vars

\* C31: only data messages reach the queue. A frame that is no data message
\* leaves data_queue and both counters unchanged; a data message whose data
\* is an object is counted once and, when the queue has room, enqueues
\* exactly its record stamped with time_received (none when the queue is
\* full); no other frame changes the queue.
C31_OnlyDataMessagesReachQueue ==
    [][/\ NonDataFrame => UNCHANGED <<data_queue, metrics>>
       /\ ObjectDataFrameReceived =>
              /\ metrics' = [metrics EXCEPT !.message_count = @ + 1]
              /\ IF Len(data_queue) < MaxQueue
                 THEN /\ Len(data_queue') = Len(data_queue) + 1
                      /\ SubSeq(data_queue', 1, Len(data_queue)) = data_queue
                      /\ StampedCopy(Last(data_queue'), frame'[1].data)
                 ELSE data_queue' = data_queue
       /\ Produced /\ data_queue' # data_queue => ObjectDataFrameReceived]_vars

\* a welcome frame has arrived behind a data message and left the one
\* stamped record and the count of one message as they were
C31_Witness ==
    /\ op = "_on_message"
    /\ frame # None
    /\ frame[1].kind = "json"
    /\ frame[1].type = "welcome"
    /\ metrics = [message_count |-> 1, error_count |-> 0]
    /\ Len(data_queue) = 1
    /\ "time_received" \in DOMAIN data_queue[1]

\* C32: at most one connection thread feeds data_queue at any time, whatever
\* the sequence of start() and stop() calls on the client.
C32_SingleProducer == ws_threads <= 1

\* the index column of a published frame
RowTimes(df) == [i \in 1 .. Len(df) |-> df[i].index]

\* C33: in CandleUpdate df_to_trade changes only on a step whose disposition
\* is Extend, and right after every such step its rows are the bars of
\* candle_list: the same openTimes in the same order, at most bars_lookback
\* of them.
C33_PublishedWindowTracksSeries ==
    [][/\ df_to_trade' # df_to_trade =>
              Polled /\ Disposition(Event, candle_list) = "Extend"
       /\ Polled /\ Disposition(Event, candle_list) = "Extend" =>
              /\ RowTimes(df_to_trade'[1]) = OpenTimes(candle_list')
              /\ Len(df_to_trade'[1]) <= bars_lookback]_vars

\* The second half of C33 alone: the append branch publishes the frame of
\* the trimmed list, so after a step whose disposition is Extend the rows
\* are the bars of candle_list.
ExtendPublishesSeries ==
    [][Polled /\ Disposition(Event, candle_list) = "Extend" =>
           /\ RowTimes(df_to_trade'[1]) = OpenTimes(candle_list')
           /\ Len(df_to_trade'[1]) <= bars_lookback]_vars

\* the step hands one dequeued event to both variants
MergedByBoth == op' = "process_data" /\ data_queue # <<>>

\* C34: built on the same non-empty backfill with the same capacity and
\* given the same dequeued events, the packaged merge step and the loop body
\* of the standalone CandleUpdate.start leave identical candle_list contents
\* after every event.
C34_VariantEquivalence ==
    [][MergedByBoth => standalone'.candle_list = candle_list']_vars

\* C34 on well-formed events alone: as long as every event handed to the
\* two variants is a seven-field candle record, their lists agree.
VariantsAgreeOnCandles ==
    [][MergedByBoth /\ standalone.candle_list = candle_list
           /\ DOMAIN Head(data_queue) = {"candles", "time_received"}
       => standalone'.candle_list = candle_list']_vars

====
